---- MODULE Spec2Model ----
(***************************************************************************)
(* A model of the PDF toolbox: the retrieval-augmented question answering  *)
(* and summarization flows of utils/pdf_analysis.py, the table extraction  *)
(* and page removal tools of utils/pdf_processing.py, and the branches of  *)
(* main.py that call them.                                                 *)
(*                                                                         *)
(* A text is a sequence of one-character strings.  The library calls the   *)
(* source makes (RecursiveCharacterTextSplitter.split_text,                *)
(* FAISS.from_texts, ChatOpenAI, RetrievalQA) are modelled by what the     *)
(* langchain versions that export these import paths do.                   *)
(***************************************************************************)
EXTENDS Integers, Sequences, FiniteSets, TLC

VARIABLES
    env,         \* the process environment read by os.getenv
    sess,        \* per browser session: the position and data of its script run
    modelLoads,  \* how many times the embedding model has been loaded
    requests,    \* how many analysis requests have been started
    rq,          \* one call of build_retriever_from_text and of its retriever
    ui,          \* one run of a PDF processing tool
    fs,          \* the files under images_out/ and outputs/
    job          \* per browser session: its run of a tool that saves to outputs/

vars == <<env, sess, modelLoads, requests, rq, ui, fs, job>>

(***************************************************************************)
(* Bounds of the model.                                                    *)
(***************************************************************************)
MaxTextLen == 4      \* longest document text drawn for the chunker
MaxChunkSize == 3    \* largest chunk_size drawn for build_retriever_from_text
MaxOverlap == 2      \* largest chunk_overlap drawn
MaxK == 4            \* largest retrieval breadth k drawn
MaxRequests == 3     \* analysis requests started in one behaviour
MaxPages == 3        \* pages of an uploaded PDF
MaxTables == 2       \* tables one strategy finds
MaxImagePages == 2   \* pages of a PDF uploaded to "Extract Images"
MaxImages == 2       \* embedded images on one page
MaxOutputPages == 2  \* pages of a PDF uploaded to a tool that saves under outputs/
MaxNumbers == 2      \* page numbers entered for "Reorder Pages" or "Rotate Pages"
MaxRuns == 1         \* runs of such a tool one session starts

(***************************************************************************)
(* The files the tools write.  images_out/ is created by extract_images    *)
(* and holds one file per image name; outputs/ is created when main.py is  *)
(* loaded and holds one file per fixed output name.                        *)
(***************************************************************************)
OutputNames ==
    {"highlighted.pdf", "reordered.pdf", "rotated.pdf", "watermarked.pdf",
     "export.docx", "export.txt", "export.md"}

NoFile == [exists |-> FALSE, kind |-> "none", pages |-> <<>>, text |-> <<>>]

EmptyFs ==
    [images_out |-> [exists |-> FALSE, files |-> {}],
     outputs |-> [name \in OutputNames |-> NoFile]]

(***************************************************************************)
(* Texts.                                                                  *)
(***************************************************************************)
Char == {"a", " ", "\n"}

Whitespace == {" ", "\n"}

TextsUpTo(n) == UNION {[1..m -> Char] : m \in 0..n}

Min(a, b) == IF a <= b THEN a ELSE b

RECURSIVE Flatten(_)
Flatten(ss) == IF ss = <<>> THEN <<>> ELSE Head(ss) \o Flatten(Tail(ss))

RECURSIVE LStrip(_)
LStrip(t) == IF t # <<>> /\ Head(t) \in Whitespace THEN LStrip(Tail(t)) ELSE t

RECURSIVE RStrip(_)
RStrip(t) ==
    IF t # <<>> /\ t[Len(t)] \in Whitespace
    THEN RStrip(SubSeq(t, 1, Len(t) - 1))
    ELSE t

\* str.strip(): leading and trailing whitespace removed.
Strip(t) == RStrip(LStrip(t))

(***************************************************************************)
(* RecursiveCharacterTextSplitter(chunk_size, chunk_overlap).split_text,   *)
(* with the class defaults the source leaves in place: separators          *)
(* ["\n\n", "\n", " ", ""], keep_separator = True, length_function = len,  *)
(* strip_whitespace = True.                                                *)
(***************************************************************************)
Separators == << <<"\n", "\n">>, <<"\n">>, <<" ">>, <<>> >>

MatchAt(text, sep, i) ==
    /\ i + Len(sep) - 1 <= Len(text)
    /\ SubSeq(text, i, i + Len(sep) - 1) = sep

Contains(text, sep) == \E i \in 1..Len(text) : MatchAt(text, sep, i)

\* The leftmost match of sep at or after position i, or 0.
FindFrom(text, sep, i) ==
    IF \E j \in i..Len(text) : MatchAt(text, sep, j)
    THEN CHOOSE j \in i..Len(text) :
            /\ MatchAt(text, sep, j)
            /\ \A h \in i..(j - 1) : ~MatchAt(text, sep, h)
    ELSE 0

\* re.split on the captured separator, each separator glued to the front of
\* the piece that follows it; start is where the current piece begins, from
\* is where the search for the next separator resumes.
RECURSIVE SplitKeepFrom(_, _, _, _)
SplitKeepFrom(text, sep, start, from) ==
    LET j == FindFrom(text, sep, from) IN
    IF j = 0
    THEN <<SubSeq(text, start, Len(text))>>
    ELSE <<SubSeq(text, start, j - 1)>> \o SplitKeepFrom(text, sep, j, j + Len(sep))

NonEmpty(p) == p # <<>>

\* _split_text_with_regex(text, separator, keep_separator = True)
SplitWithRegex(text, sep) ==
    IF sep = <<>>
    THEN [i \in 1..Len(text) |-> <<text[i]>>]
    ELSE SelectSeq(SplitKeepFrom(text, sep, 1, 1), NonEmpty)

\* JoinDocs joining only the first piece of the current document.
JoinDocsFirstPiece(cur) ==
    LET t == Strip(Head(cur)) IN IF t = <<>> THEN <<>> ELSE <<t>>

\* _join_docs with separator "": concatenate, strip, drop when empty.
JoinDocs(cur) ==
    LET t == Strip(Flatten(cur)) IN IF t = <<>> THEN <<>> ELSE <<t>>

\* The while loop of _merge_splits: drop pieces from the front of the
\* current document until what is left fits the overlap and the next piece.
RECURSIVE PopWhile(_, _, _, _, _)
PopWhile(cur, total, len, size, overlap) ==
    IF total > overlap \/ (total + len > size /\ total > 0)
    THEN PopWhile(Tail(cur), total - Len(Head(cur)), len, size, overlap)
    ELSE <<cur, total>>

RECURSIVE MergeLoop(_, _, _, _, _, _, _)
MergeLoop(splits, j, docs, cur, total, size, overlap) ==
    IF j > Len(splits)
    THEN docs \o JoinDocs(cur)
    ELSE
        LET d == splits[j]
            over == total + Len(d) > size /\ cur # <<>>
            popped == IF over
                      THEN PopWhile(cur, total, Len(d), size, overlap)
                      ELSE <<cur, total>>
        IN  MergeLoop(splits, j + 1,
                      IF over THEN docs \o JoinDocs(cur) ELSE docs,
                      Append(popped[1], d), popped[2] + Len(d),
                      size, overlap)

\* _merge_splits(splits, separator = "")
MergeSplits(splits, size, overlap) ==
    MergeLoop(splits, 1, <<>>, <<>>, 0, size, overlap)

\* The separator _split_text picks: the first of the list that is "" or
\* occurs in the text (0 when there is none: the last one is then used).
PickSeparator(text, separators) ==
    IF \E i \in 1..Len(separators) :
            separators[i] = <<>> \/ Contains(text, separators[i])
    THEN CHOOSE i \in 1..Len(separators) :
            /\ separators[i] = <<>> \/ Contains(text, separators[i])
            /\ \A h \in 1..(i - 1) :
                   ~(separators[h] = <<>> \/ Contains(text, separators[h]))
    ELSE 0

RECURSIVE SplitText(_, _, _, _)
RECURSIVE SplitLoop(_, _, _, _, _, _, _)

\* The for loop of _split_text over the pieces.
SplitLoop(splits, j, good, final, newseps, size, overlap) ==
    IF j > Len(splits)
    THEN IF good # <<>> THEN final \o MergeSplits(good, size, overlap) ELSE final
    ELSE
        LET s == splits[j] IN
        IF Len(s) < size
        THEN SplitLoop(splits, j + 1, Append(good, s), final, newseps, size, overlap)
        ELSE
            LET flushed == IF good # <<>>
                           THEN final \o MergeSplits(good, size, overlap)
                           ELSE final
                more == IF newseps = <<>>
                        THEN <<s>>
                        ELSE SplitText(s, newseps, size, overlap)
            IN  SplitLoop(splits, j + 1, <<>>, flushed \o more, newseps, size, overlap)

\* _split_text(text, separators)
SplitText(text, separators, size, overlap) ==
    LET i == PickSeparator(text, separators)
        separator == IF i = 0 THEN separators[Len(separators)] ELSE separators[i]
        newseps == IF i = 0 \/ separator = <<>>
                   THEN <<>>
                   ELSE SubSeq(separators, i + 1, Len(separators))
    IN  SplitLoop(SplitWithRegex(text, separator), 1, <<>>, <<>>, newseps, size, overlap)

\* splitter.split_text(text)
split_text(text, chunk_size, overlap) ==
    SplitText(text, Separators, chunk_size, overlap)

(***************************************************************************)
(* Embeddings and the FAISS index.  The pretrained sentence-embedding      *)
(* model is a fixed function from texts to vectors; it is abstracted by a  *)
(* fixed function of the same shape (the number of letters and the length  *)
(* of the text), which keeps what the flows rely on: equal texts get equal *)
(* vectors, different texts may get different ones.                        *)
(***************************************************************************)
RECURSIVE Count(_, _)
Count(t, c) ==
    IF t = <<>> THEN 0 ELSE (IF Head(t) = c THEN 1 ELSE 0) + Count(Tail(t), c)

Embed(t) == <<Count(t, "a"), Len(t)>>

\* embeddings.embed_documents(chunks): one vector per chunk, in order.
embed_documents(chunks) == [i \in 1..Len(chunks) |-> Embed(chunks[i])]

\* embeddings.embed_query(question)
embed_query(question) == Embed(question)

\* The squared L2 distance IndexFlatL2 reports.
Dist(u, v) == (u[1] - v[1]) * (u[1] - v[1]) + (u[2] - v[2]) * (u[2] - v[2])

\* index.search(vector, k): the results IndexFlatL2 can return, k positions
\* of stored vectors by ascending distance, padded with -1 when the index
\* holds fewer than k; vectors at equal distance come in either order.
RECURSIVE FaissSearch(_, _, _, _)
FaissSearch(index, q, k, taken) ==
    LET rest == (1..Len(index)) \ taken
        best == {i \in rest : \A j \in rest : Dist(index[i], q) <= Dist(index[j], q)}
    IN  IF k = 0 THEN {<<>>}
        ELSE IF rest = {} THEN {[i \in 1..k |-> -1]}
        ELSE UNION {{<<i>> \o r : r \in FaissSearch(index, q, k - 1, taken \cup {i})}
                    : i \in best}

IsHit(i) == i # -1

\* SkipPadding filling the -1 positions with the best hit instead.
FillPadding(found) ==
    [i \in 1..Len(found) |-> IF IsHit(found[i]) THEN found[i] ELSE found[1]]

\* similarity_search_with_score_by_vector: the -1 positions are skipped.
SkipPadding(found) == SelectSeq(found, IsHit)

\* The documents the retriever returns for the positions found.
DocsAt(chunks, hits) == [i \in 1..Len(hits) |-> chunks[hits[i]]]

(***************************************************************************)
(* build_retriever_from_text(text, chunk_size, overlap, k) and one query   *)
(* of the retriever it returns, on arguments drawn from bounded sets.      *)
(***************************************************************************)
Questions == {<<"a">>, <<"a", "a", " ", "a">>}

RqInputs ==
    [text : TextsUpTo(MaxTextLen), chunk_size : 1..MaxChunkSize,
     overlap : 0..MaxOverlap, k : 1..MaxK, question : Questions]

RqStart(in) ==
    [pc |-> "start", text |-> in.text, chunk_size |-> in.chunk_size,
     overlap |-> in.overlap, k |-> in.k, question |-> in.question,
     chunks |-> <<>>, index |-> <<>>, hits |-> <<>>, docs |-> <<>>,
     error |-> "none"]

\* RecursiveCharacterTextSplitter.__init__ rejects an overlap larger than
\* the chunk size.
SplitterRejects(rq_) ==
    /\ rq_.pc = "start"
    /\ rq_.overlap > rq_.chunk_size
    /\ rq' = [rq_ EXCEPT !.pc = "error", !.error = "ValueError"]
    /\ UNCHANGED <<env, sess, modelLoads, requests, ui, fs, job>>

\* FAISS.from_texts on an empty chunk list: len(embeddings[0]) raises.
IndexOfNothing(rq_) ==
    /\ rq_.pc = "start"
    /\ rq_.overlap <= rq_.chunk_size
    /\ split_text(rq_.text, rq_.chunk_size, rq_.overlap) = <<>>
    /\ rq' = [rq_ EXCEPT !.pc = "error", !.error = "IndexError"]
    /\ UNCHANGED <<env, sess, modelLoads, requests, ui, fs, job>>

\* build_retriever_from_text: split, embed every chunk, build the index.
BuildRetriever(rq_) ==
    /\ rq_.pc = "start"
    /\ rq_.overlap <= rq_.chunk_size
    /\ LET chunks == split_text(rq_.text, rq_.chunk_size, rq_.overlap) IN
       /\ chunks # <<>>
       /\ rq' = [rq_ EXCEPT !.pc = "built", !.chunks = chunks,
                            !.index = embed_documents(chunks)]
    /\ UNCHANGED <<env, sess, modelLoads, requests, ui, fs, job>>

\* retriever.get_relevant_documents(question) with search_kwargs {"k": k}
GetRelevantDocuments(rq_) ==
    /\ rq_.pc = "built"
    /\ \E found \in FaissSearch(rq_.index, embed_query(rq_.question), rq_.k, {}) :
          rq' = [rq_ EXCEPT !.pc = "retrieved", !.hits = SkipPadding(found),
                               !.docs = DocsAt(rq_.chunks, SkipPadding(found))]
    /\ UNCHANGED <<env, sess, modelLoads, requests, ui, fs, job>>

InitRetriever ==
    /\ \E in \in RqInputs : rq = RqStart(in)
    /\ env = [TOGETHER_API_KEY |-> FALSE, OPENAI_API_KEY |-> FALSE]
    /\ sess = <<>>
    /\ modelLoads = 0
    /\ requests = 0
    /\ ui = <<>>
    /\ fs = EmptyFs
    /\ job = <<>>

NextRetriever ==
    \/ SplitterRejects(rq)
    \/ IndexOfNothing(rq)
    \/ BuildRetriever(rq)
    \/ GetRelevantDocuments(rq)

SpecRetriever == InitRetriever /\ [][NextRetriever]_vars

(***************************************************************************)
(* The analysis flows: the "Summarize PDF" and "Ask Questions on PDF       *)
(* (RAG)" branches of main.py with summarize_text and rag_qa.  Each        *)
(* browser session runs its script in a thread of its own; the sessions    *)
(* share the process and its environment.  A PDF is the sequence of its    *)
(* pages' selectable texts.                                                *)
(***************************************************************************)
Sessions == {"s1", "s2"}

DefaultChunkSize == 800
DefaultOverlap == 100
DefaultK == 3

FlowPdfs == { << <<>> >>, << <<"a">>, <<" ", "a">> >>, << <<"\n", "a">> >> }

FlowQuestions == {<<"a">>}

\* What the hosted model may answer.
Responses == {<<"a">>, <<" ", "a", "\n">>}

\* How the request to the hosted model may fail.
RemoteFailures ==
    {"AuthenticationError", "NetworkError", "RateLimitError", "UpstreamError"}

\* extract_text_from_pdf: the pages' texts concatenated in page order.
extract_text_from_pdf(pdf) == Flatten(pdf)

SummaryTemplate ==
    <<"You are a concise technical summarizer. Summarize the following document in 6-10 bullet points, preserving key facts, numbers, and definitions. Text:",
      "\n", "\n">>

\* The prompt of summarize_text: the instruction and the text.
SummaryPrompt(text) == SummaryTemplate \o text

RECURSIVE JoinContext(_)
JoinContext(docs) ==
    IF docs = <<>> THEN <<>>
    ELSE IF Len(docs) = 1 THEN Head(docs)
    ELSE Head(docs) \o <<"\n", "\n">> \o JoinContext(Tail(docs))

\* The prompt of the "stuff" chain: the retrieved documents joined into the
\* context, and the question.
StuffPrompt(docs, question) ==
    [chain |-> "stuff", context |-> JoinContext(docs), question |-> question]

\* The credential ChatOpenAI ends up with: the openai_api_key argument when
\* it is set, else the OPENAI_API_KEY variable, else none.
ApiKey(e) ==
    IF e.TOGETHER_API_KEY THEN "TOGETHER_API_KEY"
    ELSE IF e.OPENAI_API_KEY THEN "OPENAI_API_KEY"
    ELSE "none"

IdleSession ==
    [pc |-> "idle", tool |-> "none", text |-> <<>>, question |-> <<>>,
     chunks |-> <<>>, index |-> <<>>, qvec |-> <<>>, docs |-> <<>>,
     prompt |-> <<>>, sent |-> <<>>, response |-> <<>>, result |-> <<>>,
     error |-> "none", raised |-> <<>>, log |-> <<>>]

\* A stage that completes: it is logged and the run moves on.
Advance(r, stage, next) == [r EXCEPT !.pc = next, !.log = Append(@, stage)]

\* Raise with the exception caught and the run ended as if it had succeeded.
RaiseCaught(r, stage, kind) ==
    [r EXCEPT !.pc = "done", !.raised = Append(@, kind), !.log = Append(@, stage)]

\* A stage that raises: nothing catches it in rag_qa, summarize_text or
\* their callers, so the run ends with the exception.
Raise(r, stage, kind) ==
    [r EXCEPT !.pc = "failed", !.error = kind, !.raised = Append(@, kind),
              !.log = Append(@, stage)]

\* main.py, "Summarize PDF": the text is extracted, the button is pressed.
SummarizeClick(s) ==
    /\ sess[s].pc = "idle"
    /\ requests < MaxRequests
    /\ \E pdf \in FlowPdfs :
          sess' = [sess EXCEPT ![s] =
                      [Advance(IdleSession, "extract", "summarize_text")
                          EXCEPT !.tool = "summarize",
                                 !.text = extract_text_from_pdf(pdf)]]
    /\ requests' = requests + 1
    /\ UNCHANGED <<env, modelLoads, rq, ui, fs, job>>

\* summarize_text: the prompt.
BuildSummaryPrompt(s) ==
    /\ sess[s].pc = "summarize_text"
    /\ sess' = [sess EXCEPT ![s] =
                   [Advance(@, "build_prompt", "prompted")
                       EXCEPT !.prompt = SummaryPrompt(sess[s].text)]]
    /\ UNCHANGED <<env, modelLoads, requests, rq, ui, fs, job>>

\* main.py, "Ask Questions on PDF (RAG)": a question that is not blank, the
\* button, then the text is extracted and rag_qa is called.
AskClick(s) ==
    /\ sess[s].pc = "idle"
    /\ requests < MaxRequests
    /\ \E pdf \in FlowPdfs, question \in FlowQuestions :
          /\ Strip(question) # <<>>
          /\ sess' = [sess EXCEPT ![s] =
                         [Advance(IdleSession, "extract", "rag_qa")
                             EXCEPT !.tool = "rag",
                                    !.text = extract_text_from_pdf(pdf),
                                    !.question = question]]
    /\ requests' = requests + 1
    /\ UNCHANGED <<env, modelLoads, rq, ui, fs, job>>

\* build_retriever_from_text: the splitter and split_text.
Chunk(s) ==
    /\ sess[s].pc = "rag_qa"
    /\ sess' = [sess EXCEPT ![s] =
                   [Advance(@, "chunk", "chunked")
                       EXCEPT !.chunks =
                           split_text(sess[s].text, DefaultChunkSize, DefaultOverlap)]]
    /\ UNCHANGED <<env, modelLoads, requests, rq, ui, fs, job>>

\* build_retriever_from_text: HuggingFaceEmbeddings(model_name = ...) loads
\* the sentence-embedding model, in every call.
LoadEmbeddings(s) ==
    /\ sess[s].pc = "chunked"
    /\ sess' = [sess EXCEPT ![s] = Advance(@, "load_model", "model")]
    /\ modelLoads' = modelLoads + 1
    /\ UNCHANGED <<env, requests, rq, ui, fs, job>>

\* The model cannot be loaded (no weights, no network).
LoadEmbeddingsFails(s) ==
    /\ sess[s].pc = "chunked"
    /\ sess' = [sess EXCEPT ![s] = Raise(@, "load_model", "ModelLoadError")]
    /\ UNCHANGED <<env, modelLoads, requests, rq, ui, fs, job>>

\* FAISS.from_texts: embeddings.embed_documents(chunks).
EmbedChunks(s) ==
    /\ sess[s].pc = "model"
    /\ sess' = [sess EXCEPT ![s] =
                   [Advance(@, "embed_chunks", "embedded")
                       EXCEPT !.index = embed_documents(sess[s].chunks)]]
    /\ UNCHANGED <<env, modelLoads, requests, rq, ui, fs, job>>

\* FAISS.from_texts: the index is built from the vectors.
BuildIndex(s) ==
    /\ sess[s].pc = "embedded"
    /\ sess[s].index # <<>>
    /\ sess' = [sess EXCEPT ![s] = Advance(@, "build_index", "indexed")]
    /\ UNCHANGED <<env, modelLoads, requests, rq, ui, fs, job>>

\* FAISS.from_texts on no vectors: len(embeddings[0]) raises IndexError.
BuildIndexFails(s) ==
    /\ sess[s].pc = "embedded"
    /\ sess[s].index = <<>>
    /\ sess' = [sess EXCEPT ![s] = Raise(@, "build_index", "IndexError")]
    /\ UNCHANGED <<env, modelLoads, requests, rq, ui, fs, job>>

\* together_llm: ChatOpenAI(openai_api_key = os.getenv("TOGETHER_API_KEY"))
\* is constructed when it finds a credential.
TogetherLlm(s) ==
    /\ \/ sess[s].tool = "rag" /\ sess[s].pc = "indexed"
       \/ sess[s].tool = "summarize" /\ sess[s].pc = "prompted"
    /\ ApiKey(env) # "none"
    /\ sess' = [sess EXCEPT ![s] = Advance(@, "together_llm", "llm")]
    /\ UNCHANGED <<env, modelLoads, requests, rq, ui, fs, job>>

\* together_llm: ChatOpenAI finds no credential and its validation raises.
TogetherLlmFails(s) ==
    /\ \/ sess[s].tool = "rag" /\ sess[s].pc = "indexed"
       \/ sess[s].tool = "summarize" /\ sess[s].pc = "prompted"
    /\ ApiKey(env) = "none"
    /\ sess' = [sess EXCEPT ![s] = Raise(@, "together_llm", "ValidationError")]
    /\ UNCHANGED <<env, modelLoads, requests, rq, ui, fs, job>>

\* qa({"query": question}): the retriever embeds the question.
EmbedQuestion(s) ==
    /\ sess[s].tool = "rag" /\ sess[s].pc = "llm"
    /\ sess' = [sess EXCEPT ![s] =
                   [Advance(@, "embed_question", "q_embedded")
                       EXCEPT !.qvec = embed_query(sess[s].question)]]
    /\ UNCHANGED <<env, modelLoads, requests, rq, ui, fs, job>>

\* Retrieve with the search left out: the chain goes on without documents.
RetrieveNothing(s) ==
    /\ sess[s].pc = "q_embedded"
    /\ sess' = [sess EXCEPT ![s].pc = "retrieved"]
    /\ UNCHANGED <<env, modelLoads, requests, rq, ui, fs, job>>

\* qa({"query": question}): the retriever searches the index, k = 3.
Retrieve(s) ==
    /\ sess[s].pc = "q_embedded"
    /\ \E found \in FaissSearch(sess[s].index, sess[s].qvec, DefaultK, {}) :
          sess' = [sess EXCEPT ![s] =
                      [Advance(@, "retrieve", "retrieved")
                          EXCEPT !.docs = DocsAt(sess[s].chunks, SkipPadding(found))]]
    /\ UNCHANGED <<env, modelLoads, requests, rq, ui, fs, job>>

\* qa({"query": question}): the "stuff" chain builds the prompt.
BuildPrompt(s) ==
    /\ sess[s].pc = "retrieved"
    /\ sess' = [sess EXCEPT ![s] =
                   [Advance(@, "build_prompt", "rag_prompted")
                       EXCEPT !.prompt = StuffPrompt(sess[s].docs, sess[s].question)]]
    /\ UNCHANGED <<env, modelLoads, requests, rq, ui, fs, job>>

\* What rag_qa returns: result["result"] and result["source_documents"].
RagResult(response, docs) == <<response, docs>>

\* qa({"query": question}): the chain calls the hosted model and rag_qa
\* returns the answer with the source documents.
Complete(s) ==
    /\ sess[s].pc = "rag_prompted"
    /\ \E response \in Responses :
          sess' = [sess EXCEPT ![s] =
                      [Advance(@, "complete", "done")
                          EXCEPT !.sent = Append(@, sess[s].prompt),
                                 !.response = response,
                                 !.result = RagResult(response, sess[s].docs)]]
    /\ UNCHANGED <<env, modelLoads, requests, rq, ui, fs, job>>

\* SummaryResult without the strip.
SummaryResultUntrimmed(response) == response

\* What summarize_text returns: output.content.strip().
SummaryResult(response) == Strip(response)

\* summarize_text: llm.invoke(prompt) and the stripped content.
Invoke(s) ==
    /\ sess[s].tool = "summarize" /\ sess[s].pc = "llm"
    /\ \E response \in Responses :
          sess' = [sess EXCEPT ![s] =
                      [Advance(@, "complete", "done")
                          EXCEPT !.sent = Append(@, sess[s].prompt),
                                 !.response = response,
                                 !.result = SummaryResult(response)]]
    /\ UNCHANGED <<env, modelLoads, requests, rq, ui, fs, job>>

\* The request to the hosted model is sent and fails.
RemoteFails(s) ==
    /\ \/ sess[s].tool = "rag" /\ sess[s].pc = "rag_prompted"
       \/ sess[s].tool = "summarize" /\ sess[s].pc = "llm"
    /\ \E kind \in RemoteFailures :
          sess' = [sess EXCEPT ![s] =
                      [Raise(@, "complete", kind)
                          EXCEPT !.sent = Append(@, sess[s].prompt)]]
    /\ UNCHANGED <<env, modelLoads, requests, rq, ui, fs, job>>

\* The script run is over (the result or the exception is on the page);
\* the session's next run starts afresh.
Rerun(s) ==
    /\ sess[s].pc \in {"done", "failed"}
    /\ sess' = [sess EXCEPT ![s] = IdleSession]
    /\ UNCHANGED <<env, modelLoads, requests, rq, ui, fs, job>>

Init ==
    /\ env \in [TOGETHER_API_KEY : BOOLEAN, OPENAI_API_KEY : BOOLEAN]
    /\ sess = [s \in Sessions |-> IdleSession]
    /\ modelLoads = 0
    /\ requests = 0
    /\ rq = <<>>
    /\ ui = <<>>
    /\ fs = EmptyFs
    /\ job = <<>>

Next ==
    \E s \in Sessions :
        \/ SummarizeClick(s)
        \/ BuildSummaryPrompt(s)
        \/ AskClick(s)
        \/ Chunk(s)
        \/ LoadEmbeddings(s)
        \/ LoadEmbeddingsFails(s)
        \/ EmbedChunks(s)
        \/ BuildIndex(s)
        \/ BuildIndexFails(s)
        \/ TogetherLlm(s)
        \/ TogetherLlmFails(s)
        \/ EmbedQuestion(s)
        \/ Retrieve(s)
        \/ BuildPrompt(s)
        \/ Complete(s)
        \/ Invoke(s)
        \/ RemoteFails(s)
        \/ Rerun(s)

Spec == Init /\ [][Next]_vars

(***************************************************************************)
(* The PDF processing tools: "Remove First/Last Pages" and "Extract        *)
(* Tables".  For page removal a PDF is the sequence of its pages; for      *)
(* table extraction it is what each detection strategy makes of it.        *)
(***************************************************************************)
PageContents == {"p", "q"}

PagesUpTo(n) == UNION {[1..m -> PageContents] : m \in 0..n}

\* The loop of remove_first_last_pages from page index i (0-based) on.
RECURSIVE RemoveLoop(_, _, _, _, _)
RemoveLoop(pages, i, total, remove_first, remove_last) ==
    IF i >= total THEN <<>>
    ELSE IF (remove_first /\ i = 0) \/ (remove_last /\ i = total - 1)
         THEN RemoveLoop(pages, i + 1, total, remove_first, remove_last)
         ELSE <<pages[i + 1]>>
              \o RemoveLoop(pages, i + 1, total, remove_first, remove_last)

\* remove_first_last_pages comparing the last index with total instead of
\* total - 1: no index ever matches it.
RemoveLastNeverMatches(pages, remove_first, remove_last) ==
    RemoveLoop(pages, 0, Len(pages), remove_first, FALSE)

\* remove_first_last_pages(pdf_path, remove_first, remove_last): the pages
\* written to the returned PDF.
remove_first_last_pages(pages, remove_first, remove_last) ==
    RemoveLoop(pages, 0, Len(pages), remove_first, remove_last)

\* What camelot.read_pdf makes of a PDF: it raises, or it returns a number
\* of tables.
CamelotOutcomes ==
    {[raises |-> TRUE, n |-> 0]} \cup [raises : {FALSE}, n : 0..MaxTables]

\* What pdfplumber makes of it: it raises, or it finds a number of tables
\* on each page.
PlumberOutcomes ==
    {[raises |-> TRUE, pages |-> <<>>]}
    \cup [raises : {FALSE}, pages : UNION {[1..m -> 0..MaxTables] : m \in 0..MaxPages}]

TablePdfs == [camelot : CamelotOutcomes, plumber : PlumberOutcomes]

\* [t.df for t in tables]
CamelotFrames(n) == [i \in 1..n |-> [by |-> "camelot", table |-> i]]

\* page.extract_tables() of one page.
PageTables(page, n) == [i \in 1..n |-> [by |-> "pdfplumber", page |-> page, table |-> i]]

RECURSIVE PlumberLoop(_, _)
PlumberLoop(counts, page) ==
    IF page > Len(counts) THEN <<>>
    ELSE PageTables(page, counts[page]) \o PlumberLoop(counts, page + 1)

\* The second part of extract_tables: pdfplumber over every page; nothing
\* catches what it raises.
PlumberPart(pdf, tried, swallowed) ==
    IF pdf.plumber.raises
    THEN [tried |-> Append(tried, "pdfplumber"), swallowed |-> swallowed,
          tables |-> <<>>, error |-> "pdfplumber"]
    ELSE [tried |-> Append(tried, "pdfplumber"), swallowed |-> swallowed,
          tables |-> PlumberLoop(pdf.plumber.pages, 1), error |-> "none"]

\* extract_tables without the try block: what Camelot raises reaches the
\* caller and pdfplumber is not run.
ExtractTablesNoTry(pdf) ==
    IF pdf.camelot.raises
    THEN [tried |-> <<"camelot">>, swallowed |-> FALSE, tables |-> <<>>,
          error |-> "camelot"]
    ELSE IF pdf.camelot.n > 0
    THEN [tried |-> <<"camelot">>, swallowed |-> FALSE,
          tables |-> CamelotFrames(pdf.camelot.n), error |-> "none"]
    ELSE PlumberPart(pdf, <<"camelot">>, FALSE)

\* extract_tables(pdf_path): Camelot in a try block whose except clause
\* passes, then pdfplumber unless Camelot returned tables.
extract_tables(pdf) ==
    IF pdf.camelot.raises
    THEN PlumberPart(pdf, <<"camelot">>, TRUE)
    ELSE IF pdf.camelot.n > 0
    THEN [tried |-> <<"camelot">>, swallowed |-> FALSE,
          tables |-> CamelotFrames(pdf.camelot.n), error |-> "none"]
    ELSE PlumberPart(pdf, <<"camelot">>, FALSE)

IdleUi ==
    [pc |-> "idle", tool |-> "none", pages |-> <<>>, remove_first |-> FALSE,
     remove_last |-> FALSE, out |-> <<>>,
     pdf |-> [camelot |-> [raises |-> FALSE, n |-> 0],
              plumber |-> [raises |-> FALSE, pages |-> <<>>]], tried |-> <<>>,
     swallowed |-> FALSE, tables |-> <<>>, error |-> "none", shown |-> "none"]

\* main.py, "Remove First/Last Pages": the two checkboxes, the button, the
\* modified PDF offered for download.
RemoveAndDownload ==
    /\ ui.pc = "idle"
    /\ \E pages \in PagesUpTo(MaxPages), remove_first \in BOOLEAN, remove_last \in BOOLEAN :
          ui' = [IdleUi EXCEPT
                    !.pc = "done", !.tool = "remove", !.pages = pages,
                    !.remove_first = remove_first, !.remove_last = remove_last,
                    !.out = remove_first_last_pages(pages, remove_first, remove_last),
                    !.shown = "download"]
    /\ UNCHANGED <<env, sess, modelLoads, requests, rq, fs, job>>

\* main.py, "Extract Tables": the tables are shown, or "No tables detected."
ExtractTablesBranch ==
    /\ ui.pc = "idle"
    /\ \E pdf \in TablePdfs :
          LET r == extract_tables(pdf) IN
          ui' = [IdleUi EXCEPT
                    !.pc = "done", !.tool = "tables", !.pdf = pdf,
                    !.tried = r.tried, !.swallowed = r.swallowed,
                    !.tables = r.tables, !.error = r.error,
                    !.shown = IF r.error # "none" THEN "exception"
                              ELSE IF r.tables = <<>> THEN "No tables detected."
                              ELSE "tables"]
    /\ UNCHANGED <<env, sess, modelLoads, requests, rq, fs, job>>

\* The next script run of the page.
NextRun ==
    /\ ui.pc = "done"
    /\ ui' = IdleUi
    /\ UNCHANGED <<env, sess, modelLoads, requests, rq, fs, job>>

InitTools ==
    /\ ui = IdleUi
    /\ env = [TOGETHER_API_KEY |-> FALSE, OPENAI_API_KEY |-> FALSE]
    /\ sess = <<>>
    /\ modelLoads = 0
    /\ requests = 0
    /\ rq = <<>>
    /\ fs = EmptyFs
    /\ job = <<>>

NextTools ==
    \/ RemoveAndDownload
    \/ ExtractTablesBranch
    \/ NextRun

SpecTools == InitTools /\ [][NextTools]_vars

(***************************************************************************)
(* "Extract Images".  A PDF is an identity and the number of embedded      *)
(* images on each of its pages; an image file is named by its page and its *)
(* position on the page (the extension is left out of the name) and holds  *)
(* the image of the PDF it was extracted from.                             *)
(***************************************************************************)
ImagePdfs ==
    [id : {"A", "B"},
     images : UNION {[1..m -> 0..MaxImages] : m \in 1..MaxImagePages}]

ImagesDir == [dir |-> "images_out", page |-> 0, idx |-> 0]

\* os.path.join(output_folder, f"page_{i+1}_img_{idx+1}.{ext}")
ImagePath(page, idx) == [dir |-> "images_out", page |-> page, idx |-> idx]

\* The inner loop of extract_images: the paths saved for one page.
SavedOnPage(page, n) == [idx \in 1..n |-> ImagePath(page, idx)]

\* The outer loop of extract_images: the list of saved paths.
RECURSIVE SavedLoop(_, _)
SavedLoop(images, page) ==
    IF page > Len(images) THEN <<>>
    ELSE SavedOnPage(page, images[page]) \o SavedLoop(images, page + 1)

\* The files extract_images writes: open(out_path, "wb") replaces a file of
\* the same name and leaves every other file of the folder in place.
WrittenImages(pdf) ==
    UNION {{[page |-> p, idx |-> i, pdf |-> pdf.id] : i \in 1..pdf.images[p]}
           : p \in 1..Len(pdf.images)}

\* extract_images(pdf_path, output_folder = "images_out"): the folder after
\* the call and the list returned.
extract_images(dir, pdf) ==
    LET new == WrittenImages(pdf)
        kept == {f \in dir.files :
                    ~\E g \in new : g.page = f.page /\ g.idx = f.idx}
    IN  [dir |-> [exists |-> TRUE, files |-> kept \cup new],
         saved |-> SavedLoop(pdf.images, 1)]

\* os.path.isdir(path): true of the folder, not of a file in it.
IsDir(dir, path) == dir.exists /\ path = ImagesDir

\* zip_folder_to_bytes(folder): every file os.walk finds under the folder.
zip_folder_to_bytes(dir) == dir.files

IdleImages ==
    [pc |-> "idle", pdf |-> [id |-> "A", images |-> <<0>>], saved |-> <<>>,
     folder |-> ImagesDir, error |-> "none", offered |-> FALSE, zip |-> {},
     preview |-> FALSE]

\* main.py, "Extract Images": extract_images is called and its result, a
\* list, is replaced by its first element; the ZIP is offered when that is
\* a folder with files in it; pressing the download button removes the
\* folder, and the preview is shown while the folder is there.
ExtractImagesBranch ==
    /\ ui.pc = "idle"
    /\ \E pdf \in ImagePdfs :
          LET r == extract_images(fs.images_out, pdf) IN
          IF r.saved = <<>>
          THEN /\ ui' = [IdleImages EXCEPT !.pc = "done", !.pdf = pdf,
                                           !.error = "IndexError"]
               /\ fs' = [fs EXCEPT !.images_out = r.dir]
          ELSE LET folder == r.saved[1]
                   offered == IsDir(r.dir, folder) /\ r.dir.files # {}
               IN  \E pressed \in IF offered THEN BOOLEAN ELSE {FALSE} :
                      /\ ui' = [IdleImages EXCEPT
                                   !.pc = "done", !.pdf = pdf, !.saved = r.saved,
                                   !.folder = folder, !.offered = offered,
                                   !.zip = IF offered THEN zip_folder_to_bytes(r.dir)
                                           ELSE {},
                                   !.preview = offered /\ ~pressed]
                      /\ fs' = [fs EXCEPT !.images_out =
                                   IF pressed THEN [exists |-> FALSE, files |-> {}]
                                   ELSE r.dir]
    /\ UNCHANGED <<env, sess, modelLoads, requests, rq, job>>

\* The next script run of the page; images_out/ stays as it is.
ImagesNextRun ==
    /\ ui.pc = "done"
    /\ ui' = IdleImages
    /\ UNCHANGED <<env, sess, modelLoads, requests, rq, fs, job>>

InitImages ==
    /\ ui = IdleImages
    /\ fs = EmptyFs
    /\ env = [TOGETHER_API_KEY |-> FALSE, OPENAI_API_KEY |-> FALSE]
    /\ sess = <<>>
    /\ modelLoads = 0
    /\ requests = 0
    /\ rq = <<>>
    /\ job = <<>>

NextImages ==
    \/ ExtractImagesBranch
    \/ ImagesNextRun

SpecImages == InitImages /\ [][NextImages]_vars

(***************************************************************************)
(* The tools that save their result under outputs/ and read it back for    *)
(* the download: "Keyword Search & Highlight", "Reorder Pages", "Rotate    *)
(* Pages", "Add Watermark" and the three exports.  Each browser session    *)
(* runs the script in a thread of its own; the upload goes to a temporary  *)
(* file of the run, the result to a path that is the same for every run.   *)
(* A page is its selectable text, its rotation, the number of highlight    *)
(* annotations on it and the texts inserted into it.                       *)
(***************************************************************************)
OutputTools ==
    {"highlight", "reorder", "rotate", "watermark", "word", "text", "markdown"}

\* out_file(name) of each branch.
out_file(tool) ==
    CASE tool = "highlight" -> "highlighted.pdf"
      [] tool = "reorder"   -> "reordered.pdf"
      [] tool = "rotate"    -> "rotated.pdf"
      [] tool = "watermark" -> "watermarked.pdf"
      [] tool = "word"      -> "export.docx"
      [] tool = "text"      -> "export.txt"
      [] tool = "markdown"  -> "export.md"

OutputPageTexts == {<<"a">>, <<"b">>}

UploadedPage(t) == [text |-> t, rot |-> 0, hl |-> 0, ins |-> <<>>]

\* The PDFs a session may upload.
OutputPdfs ==
    UNION {[1..m -> {UploadedPage(t) : t \in OutputPageTexts}] : m \in 1..MaxOutputPages}

NoArg == [keyword |-> <<>>, nums |-> <<>>, angle |-> 0, wm |-> <<>>]

\* The list comprehension of the Reorder and Rotate branches keeps the
\* items that are digits only, so the numbers are naturals; a list may come
\* out empty although the input was not.
PageNumbers == UNION {[1..m -> 0..(MaxOutputPages - 1)] : m \in 0..MaxNumbers}

Angles == {90, 180, 360}

\* The widget values with which the branch of the tool runs the tool.
OutputArgs(tool) ==
    CASE tool = "highlight" -> {[NoArg EXCEPT !.keyword = k] : k \in OutputPageTexts}
      [] tool = "reorder"   -> {[NoArg EXCEPT !.nums = o] : o \in PageNumbers}
      [] tool = "rotate"    ->
            {[NoArg EXCEPT !.nums = p, !.angle = a] : p \in PageNumbers, a \in Angles}
      [] tool = "watermark" -> {[NoArg EXCEPT !.wm = w] : w \in OutputPageTexts}
      [] OTHER              -> {NoArg}

PdfFile(pages) == [exists |-> TRUE, kind |-> "pdf", pages |-> pages, text |-> <<>>]

\* A file opened for writing and not yet written in full, or written by two
\* runs at once.
TornFile == [exists |-> TRUE, kind |-> "torn", pages |-> <<>>, text |-> <<>>]

\* page.search_for(keyword): one rectangle per occurrence on the page.
Hits(text, keyword) ==
    Cardinality({i \in 1..(Len(text) - Len(keyword) + 1) :
                     SubSeq(text, i, i + Len(keyword) - 1) = keyword})

keyword_highlight_pdf(pdf, keyword) ==
    [raises |-> FALSE,
     file |-> PdfFile([i \in 1..Len(pdf) |->
                          [pdf[i] EXCEPT !.hl = @ + Hits(pdf[i].text, keyword)]])]

\* dst.insert_pdf(src, from_page=i, to_page=i) for each i of new_order; a
\* page number past the last page is taken as the last page.
RECURSIVE InsertLoop(_, _)
InsertLoop(src, new_order) ==
    IF new_order = <<>> THEN <<>>
    ELSE <<src[Min(Head(new_order), Len(src) - 1) + 1]>> \o InsertLoop(src, Tail(new_order))

\* Document.save refuses a document without pages.
reorder_pages(pdf, new_order) ==
    LET dst == InsertLoop(pdf, new_order)
    IN  IF dst = <<>> THEN [raises |-> TRUE, file |-> NoFile]
        ELSE [raises |-> FALSE, file |-> PdfFile(dst)]

\* doc[p].set_rotation(angle) for each p of pages_to_rotate; doc[p] raises
\* for a p that is no page of the document.
RECURSIVE RotateLoop(_, _, _)
RotateLoop(doc, pages_to_rotate, angle) ==
    IF pages_to_rotate = <<>> THEN [raises |-> FALSE, file |-> PdfFile(doc)]
    ELSE IF Head(pages_to_rotate) >= Len(doc) THEN [raises |-> TRUE, file |-> NoFile]
    ELSE RotateLoop([doc EXCEPT ![Head(pages_to_rotate) + 1].rot = angle % 360],
                    Tail(pages_to_rotate), angle)

rotate_pages(pdf, pages_to_rotate, angle) == RotateLoop(pdf, pages_to_rotate, angle)

add_watermark(pdf, watermark_text) ==
    [raises |-> FALSE,
     file |-> PdfFile([i \in 1..Len(pdf) |->
                          [pdf[i] EXCEPT !.ins = Append(@, watermark_text)]])]

\* The document pdf2docx writes: the pages' texts.
export_to_word(pdf) ==
    [raises |-> FALSE,
     file |-> [exists |-> TRUE, kind |-> "docx",
               pages |-> [i \in 1..Len(pdf) |-> UploadedPage(pdf[i].text)],
               text |-> <<>>]]

PageTexts(pdf) == [i \in 1..Len(pdf) |-> pdf[i].text]

export_to_text(pdf) ==
    [raises |-> FALSE,
     file |-> [exists |-> TRUE, kind |-> "txt", pages |-> <<>>,
               text |-> Flatten(PageTexts(pdf))]]

\* pandoc writes a text of letters as one paragraph and ends it with a
\* newline.
export_text_to_markdown(text) ==
    [raises |-> FALSE,
     file |-> [exists |-> TRUE, kind |-> "md", pages |-> <<>>,
               text |-> IF text = <<>> THEN <<>> ELSE text \o <<"\n">>]]

\* What the branch of the tool calls on the upload of the run.
RunTool(tool, pdf, arg) ==
    CASE tool = "highlight" -> keyword_highlight_pdf(pdf, arg.keyword)
      [] tool = "reorder"   -> reorder_pages(pdf, arg.nums)
      [] tool = "rotate"    -> rotate_pages(pdf, arg.nums, arg.angle)
      [] tool = "watermark" -> add_watermark(pdf, arg.wm)
      [] tool = "word"      -> export_to_word(pdf)
      [] tool = "text"      -> export_to_text(pdf)
      [] tool = "markdown"  -> export_text_to_markdown(extract_text_from_pdf(PageTexts(pdf)))

IdleJob ==
    [pc |-> "idle", tool |-> "text", pdf |-> <<UploadedPage(<<"a">>)>>, arg |-> NoArg,
     overlapped |-> FALSE, download |-> NoFile, runs |-> 0]

Writing(s, name) == job[s].pc = "writing" /\ out_file(job[s].tool) = name

\* A script run reaches the branch of one of the tools with an upload and
\* with the widget values that make the branch run the tool.
StartTool(s) ==
    /\ job[s].pc = "idle"
    /\ job[s].runs < MaxRuns
    /\ \E tool \in OutputTools : \E pdf \in OutputPdfs : \E arg \in OutputArgs(tool) :
          job' = [job EXCEPT ![s] = [IdleJob EXCEPT !.pc = "run", !.tool = tool,
                                                    !.pdf = pdf, !.arg = arg,
                                                    !.runs = job[s].runs + 1]]
    /\ UNCHANGED <<env, sess, modelLoads, requests, rq, ui, fs>>

\* The tool builds its result and opens the output path for writing, or
\* raises before it does.
OpenOutput(s) ==
    /\ job[s].pc = "run"
    /\ LET r == RunTool(job[s].tool, job[s].pdf, job[s].arg)
           name == out_file(job[s].tool)
           others == {t \in Sessions \ {s} : Writing(t, name)}
       IN  IF r.raises
           THEN /\ job' = [job EXCEPT ![s].pc = "error"]
                /\ fs' = fs
           ELSE /\ job' = [t \in Sessions |->
                             IF t = s THEN [job[s] EXCEPT !.pc = "writing",
                                                          !.overlapped = others # {}]
                             ELSE IF t \in others THEN [job[t] EXCEPT !.overlapped = TRUE]
                             ELSE job[t]]
                /\ fs' = [fs EXCEPT !.outputs[name] = TornFile]
    /\ UNCHANGED <<env, sess, modelLoads, requests, rq, ui>>

\* The tool has written its result and returns the path.  Two runs that
\* had the path open at once leave the bytes of this run or a mix.
CloseOutput(s) ==
    /\ job[s].pc = "writing"
    /\ LET r == RunTool(job[s].tool, job[s].pdf, job[s].arg)
           name == out_file(job[s].tool)
       IN  \E written \in (IF job[s].overlapped THEN {r.file, TornFile} ELSE {r.file}) :
              fs' = [fs EXCEPT !.outputs[name] = written]
    /\ job' = [job EXCEPT ![s].pc = "saved"]
    /\ UNCHANGED <<env, sess, modelLoads, requests, rq, ui>>

\* open(out_path, "rb").read() and the download button.
ReadBack(s) ==
    /\ job[s].pc = "saved"
    /\ job' = [job EXCEPT ![s].pc = "offered",
                          ![s].download = fs.outputs[out_file(job[s].tool)]]
    /\ UNCHANGED <<env, sess, modelLoads, requests, rq, ui, fs>>

\* The script run is over; the next one starts from the widgets.
ToolNextRun(s) ==
    /\ job[s].pc \in {"offered", "error"}
    /\ job' = [job EXCEPT ![s] = [IdleJob EXCEPT !.runs = job[s].runs]]
    /\ UNCHANGED <<env, sess, modelLoads, requests, rq, ui, fs>>

InitOutputs ==
    /\ job = [s \in Sessions |-> IdleJob]
    /\ fs = EmptyFs
    /\ env = [TOGETHER_API_KEY |-> FALSE, OPENAI_API_KEY |-> FALSE]
    /\ sess = <<>>
    /\ modelLoads = 0
    /\ requests = 0
    /\ rq = <<>>
    /\ ui = IdleImages

NextOutputs ==
    \E s \in Sessions :
        \/ StartTool(s)
        \/ OpenOutput(s)
        \/ CloseOutput(s)
        \/ ReadBack(s)
        \/ ToolNextRun(s)

SpecOutputs == InitOutputs /\ [][NextOutputs]_vars

(***************************************************************************)
(* The claims.                                                             *)
(***************************************************************************)
IsPrefix(a, b) == Len(a) <= Len(b) /\ SubSeq(b, 1, Len(a)) = a

InLog(r, stage) == \E i \in 1..Len(r.log) : r.log[i] = stage

\* The stages rag_qa goes through, in the order of the code.
RagCodeOrder ==
    <<"extract", "chunk", "load_model", "embed_chunks", "build_index",
      "together_llm", "embed_question", "retrieve", "build_prompt", "complete">>

\* The stages the specification names for the question answering flow.
RagClaimedOrder ==
    <<"extract", "chunk", "embed_chunks", "build_index", "embed_question",
      "retrieve", "build_prompt", "complete">>

IsClaimedStage(stage) == \E i \in 1..Len(RagClaimedOrder) : RagClaimedOrder[i] = stage

\* C1: a rag_qa run goes through its stages in the order extract, chunk,
\* embed all chunks, build the index, embed the question, retrieve, build
\* the prompt, call the hosted model, none twice and none skipped; a run
\* that succeeds has gone through all of them, has sent the one prompt
\* built from the retrieved chunks and the question, and returns the answer
\* with the retrieved chunks in their retrieval order.
C1_RagStagesInOrder ==
    \A s \in Sessions :
        LET r == sess[s] IN
        r.tool = "rag" =>
            /\ IsPrefix(r.log, RagCodeOrder)
            /\ r.pc = "done" =>
                /\ SelectSeq(r.log, IsClaimedStage) = RagClaimedOrder
                /\ r.chunks = split_text(r.text, DefaultChunkSize, DefaultOverlap)
                /\ Len(r.index) = Len(r.chunks)
                /\ r.docs # <<>>
                /\ \A i \in 1..Len(r.docs) :
                       \E j \in 1..Len(r.chunks) : r.docs[i] = r.chunks[j]
                /\ r.prompt.question = r.question
                /\ r.prompt.context = JoinContext(r.docs)
                /\ r.sent = <<r.prompt>>
                /\ r.result = <<r.response, r.docs>>

C1_Witness ==
    \E s \in Sessions :
        /\ sess[s].tool = "rag"
        /\ sess[s].pc = "done"
        /\ sess[s].text # <<>>
        /\ sess[s].result[2] = sess[s].chunks

\* C2: in both flows a stage that fails ends the run at once: the run is
\* failed with the kind of that one failure, it has no result and no
\* response, the failing stage is the last one it ran, and from then on the
\* run does nothing but end; a run never changes from one flow to the other.
C2_FailureState ==
    \A s \in Sessions :
        LET r == sess[s] IN
        /\ r.raised # <<>> =>
              /\ r.pc = "failed"
              /\ r.raised = <<r.error>>
              /\ r.result = <<>>
              /\ r.response = <<>>
        /\ r.pc = "failed" => r.raised # <<>> /\ r.error # "none"
        /\ r.pc # "failed" => r.error = "none"

C2_FailureStep ==
    \A s \in Sessions :
        /\ sess[s].pc = "failed" => sess'[s] \in {sess[s], IdleSession}
        /\ sess[s].tool # "none" /\ sess'[s].tool # "none" =>
              sess'[s].tool = sess[s].tool

C2_FailureEndsFlow == [] C2_FailureState /\ [][C2_FailureStep]_vars

C2_Witness ==
    \E s \in Sessions :
        /\ sess[s].pc = "failed"
        /\ sess[s].error \in RemoteFailures
        /\ sess[s].sent # <<>>
        /\ sess[s].log[Len(sess[s].log)] = "complete"

\* C3: the embedding model is loaded at most once in the process, however
\* many rag_qa runs there are.
C3_ModelLoadedOnce == modelLoads <= 1

\* C4: with TOGETHER_API_KEY unset, a run that comes to together_llm fails
\* there with an AuthenticationError and sends nothing to the hosted model.
C4_NoCredentialFailsFast ==
    \A s \in Sessions :
        LET r == sess[s] IN
        ~env.TOGETHER_API_KEY /\ (InLog(r, "together_llm") \/ InLog(r, "complete")) =>
            /\ r.pc = "failed"
            /\ r.error = "AuthenticationError"
            /\ r.sent = <<>>

AllWhitespace(text, i, j) == \A h \in i..j : text[h] \in Whitespace

Max(a, b) == IF a >= b THEN a ELSE b

\* A stretch of the text that no chunk covers: none at all when the
\* rebuilding is exact, whitespace only otherwise.
GapOk(text, i, j, exact) == IF exact THEN i > j ELSE AllWhitespace(text, i, j)

\* The chunks from the i-th on rebuild the text from position pos + 1 on:
\* each chunk is found in the text, starting inside what is already rebuilt
\* or right after it (its overlap is trimmed), or after a gap.
RECURSIVE Rebuilds(_, _, _, _, _)
Rebuilds(text, chunks, i, pos, exact) ==
    IF i > Len(chunks)
    THEN GapOk(text, pos + 1, Len(text), exact)
    ELSE \E start \in 1..(Len(text) - Len(chunks[i]) + 1) :
            /\ SubSeq(text, start, start + Len(chunks[i]) - 1) = chunks[i]
            /\ GapOk(text, pos + 1, start - 1, exact)
            /\ start + Len(chunks[i]) - 1 >= pos
            /\ Rebuilds(text, chunks, i + 1, Max(pos, start + Len(chunks[i]) - 1), exact)

RqSplit == rq.pc \in {"built", "retrieved"} \/ (rq.pc = "error" /\ rq.error = "IndexError")

C6_TopK ==
    rq.pc = "retrieved" =>
        LET n == Len(rq.chunks)
            q == Embed(rq.question)
            d(i) == Dist(Embed(rq.chunks[rq.hits[i]]), q)
        IN  /\ Len(rq.docs) = Min(rq.k, n)
            /\ rq.k = DefaultK => Len(rq.docs) = Min(3, n)
            /\ Len(rq.hits) = Len(rq.docs)
            /\ \A i \in 1..Len(rq.hits) :
                   /\ rq.hits[i] \in 1..n
                   /\ rq.docs[i] = rq.chunks[rq.hits[i]]
            /\ \A i, j \in 1..Len(rq.hits) : i # j => rq.hits[i] # rq.hits[j]
            /\ \A i, j \in 1..Len(rq.hits) : i < j => d(i) <= d(j)
            /\ \A i \in 1..Len(rq.hits) :
                   \A m \in (1..n) \ {rq.hits[j] : j \in 1..Len(rq.hits)} :
                       d(i) <= Dist(Embed(rq.chunks[m]), q)

C6_Witness ==
    /\ rq.pc = "retrieved"
    /\ rq.k = DefaultK
    /\ Len(rq.chunks) = 2
    /\ Len(rq.docs) = 2
    /\ rq.docs[1] # rq.docs[2]

\* C7: a summarize_text run that succeeds has built one prompt, the
\* instruction followed by the whole text, has sent it in its one call of
\* the hosted model, has chunked, embedded, indexed and retrieved nothing,
\* and returns the response without its leading and trailing whitespace.
C7_Summarize ==
    \A s \in Sessions :
        LET r == sess[s] IN
        r.tool = "summarize" /\ r.pc = "done" =>
            /\ r.log = <<"extract", "build_prompt", "together_llm", "complete">>
            /\ Len(r.prompt) = Len(SummaryTemplate) + Len(r.text)
            /\ SubSeq(r.prompt, 1, Len(SummaryTemplate)) = SummaryTemplate
            /\ SubSeq(r.prompt, Len(SummaryTemplate) + 1, Len(r.prompt)) = r.text
            /\ r.sent = <<r.prompt>>
            /\ r.chunks = <<>> /\ r.index = <<>> /\ r.qvec = <<>> /\ r.docs = <<>>
            /\ r.result = Strip(r.response)
            /\ r.result # <<>> =>
                  /\ r.result[1] \notin Whitespace
                  /\ r.result[Len(r.result)] \notin Whitespace

C7_Witness ==
    \E s \in Sessions :
        /\ sess[s].tool = "summarize"
        /\ sess[s].pc = "done"
        /\ sess[s].text # <<>>
        /\ sess[s].result # sess[s].response

\* C8: a run on an empty text, with a credential configured and the
\* embedding model available, fails before the hosted model is called in
\* neither flow: when it ends, its prompt has been sent.
C8_EmptyTextPassesThrough ==
    \A s \in Sessions :
        LET r == sess[s] IN
        /\ r.tool # "none"
        /\ r.text = <<>>
        /\ r.pc \in {"done", "failed"}
        /\ r.error \notin {"ModelLoadError", "ValidationError"}
        => /\ Len(r.sent) = 1
           /\ r.error \in RemoteFailures \cup {"none"}

\* C9: extract_tables runs Camelot first; it runs pdfplumber exactly when
\* Camelot raised or returned no table; when Camelot returns tables they
\* are the result; what Camelot raises never reaches the caller.
C9_TableFallback ==
    ui.tool = "tables" =>
        LET first == ui.pdf.camelot
            ranSecond == \E i \in 1..Len(ui.tried) : ui.tried[i] = "pdfplumber"
        IN  /\ ui.tried # <<>> /\ ui.tried[1] = "camelot"
            /\ ranSecond <=> (first.raises \/ first.n = 0)
            /\ ranSecond => ui.tried = <<"camelot", "pdfplumber">>
            /\ ~first.raises /\ first.n > 0 =>
                  /\ Len(ui.tables) = first.n
                  /\ \A i \in 1..Len(ui.tables) : ui.tables[i].by = "camelot"
                  /\ ui.error = "none"
            /\ ranSecond =>
                  \A i \in 1..Len(ui.tables) : ui.tables[i].by = "pdfplumber"
            /\ ui.error # "camelot"
            /\ first.raises /\ ~ui.pdf.plumber.raises => ui.error = "none"

C9_Witness ==
    /\ ui.tool = "tables"
    /\ ui.pdf.camelot.raises
    /\ ui.tried = <<"camelot", "pdfplumber">>
    /\ Len(ui.tables) >= 2
    /\ ui.error = "none"

\* C10: remove_first_last_pages keeps the pages in their order, leaving out
\* the first one exactly when remove_first is set and the last one exactly
\* when remove_last is set; either flag empties a one-page PDF, and with
\* neither flag the pages are unchanged.
C10_RemoveFirstLast ==
    ui.tool = "remove" =>
        LET n == Len(ui.pages)
            kept == {i \in 1..n : ~(ui.remove_first /\ i = 1) /\ ~(ui.remove_last /\ i = n)}
            skip == IF ui.remove_first /\ n > 0 THEN 1 ELSE 0
        IN  /\ Len(ui.out) = Cardinality(kept)
            /\ \A j \in 1..Len(ui.out) : j + skip \in kept /\ ui.out[j] = ui.pages[j + skip]
            /\ n = 1 /\ (ui.remove_first \/ ui.remove_last) => ui.out = <<>>
            /\ ~ui.remove_first /\ ~ui.remove_last => ui.out = ui.pages

C10_Witness ==
    /\ ui.tool = "remove"
    /\ ui.pages = <<"p", "q", "p">>
    /\ ui.remove_first
    /\ ui.remove_last
    /\ ui.out = <<"q">>

\* The number of embedded images of a PDF.
RECURSIVE ImageCount(_)
ImageCount(images) ==
    IF images = <<>> THEN 0 ELSE Head(images) + ImageCount(Tail(images))

\* C11: "Extract Images" on a PDF with an embedded image offers a ZIP that
\* holds the images extracted from that PDF and nothing else; on a PDF with
\* none it ends without an error and offers no download.
C11_ImagesZip ==
    ui.pc = "done" =>
        /\ ui.error = "none"
        /\ ImageCount(ui.pdf.images) = 0 => ~ui.offered
        /\ ImageCount(ui.pdf.images) > 0 =>
              /\ ui.offered
              /\ ui.zip = UNION {{[page |-> p, idx |-> i, pdf |-> ui.pdf.id]
                                    : i \in 1..ui.pdf.images[p]}
                                 : p \in 1..Len(ui.pdf.images)}

\* C12: whenever a run of one of the tools that save under outputs/ offers
\* a download, the bytes offered are the ones that tool produces from the
\* run's own uploaded PDF and widget values, whatever another session's
\* run of the same tool did in between.
C12_OwnBytesOffered ==
    \A s \in Sessions :
        job[s].pc = "offered" =>
            job[s].download = RunTool(job[s].tool, job[s].pdf, job[s].arg).file

====
